---- MODULE Spec2Model ----
(***************************************************************************)
(* Attribute nodes of syn-solidity (crates/syn-solidity/src/attribute):    *)
(* the keyword enums Storage / Visibility / Mutability, the `override`     *)
(* attribute and modifier invocations, with their parsing, rendering,      *)
(* span computation, span relocation, equality and hashing.                *)
(*                                                                         *)
(* Text is modelled at token granularity.  A token tree is either a word   *)
(* or punctuation mark, or a parenthesized group holding the tokens of its *)
(* interior.  Rendered text is the sequence of pieces written to the       *)
(* formatter; Lex turns such text back into token trees.                   *)
(***************************************************************************)
EXTENDS Integers, Sequences, FiniteSets, TLC

\* Longest interior of a parenthesized group, in tokens.
MaxInner == 3
\* Number of source offsets at which the comparison node can be parsed.
NumOffsets == 2

(***************************************************************************)
(* Spans.  An Option<T> is the empty set or a singleton.                   *)
(***************************************************************************)
Ctxs == {"file", "opaque"}

Span(c, lo, hi) == [ctx |-> c, lo |-> lo, hi |-> hi]

Min(x, y) == IF x <= y THEN x ELSE y
Max(x, y) == IF x >= y THEN x ELSE y

\* Span::join: spans of one source file join to the covering span; spans of
\* different origins, and spans whose origin cannot join at all, give None.
Join(s, t) ==
    IF s.ctx = t.ctx /\ s.ctx = "file"
    THEN {Span(s.ctx, Min(s.lo, t.lo), Max(s.hi, t.hi))}
    ELSE {}

\* The spans set_span is called with.
SpanArgs == {Span("file", 8, 9), Span("opaque", 0, 0)}

(***************************************************************************)
(* Token trees and where a token stream comes from: the offset of its      *)
(* first token, the origin of its top-level tokens and the origin of the   *)
(* tokens of its group.                                                    *)
(***************************************************************************)
Tok(t) == [g |-> FALSE, t |-> t, inner |-> <<>>]
Grp(in) == [g |-> TRUE, t |-> "()", inner |-> in]

Org(off, kctx, gctx) == [off |-> off, kctx |-> kctx, gctx |-> gctx]

\* Span of the i-th top-level token tree (0-based) of a stream.
TokSpan(org, i) ==
    Span(IF i = 0 THEN org.kctx ELSE org.gctx, org.off + i, org.off + i + 1)
\* Span of the j-th token (1-based) inside the group.
InnerSpan(org, j) == Span(org.gctx, org.off + 1 + j, org.off + 2 + j)

None == [ty |-> "None"]
Err == [ty |-> "Err"]

(***************************************************************************)
(* kw_enum!                                                                *)
(***************************************************************************)
\* Storage with the variants of `memory` and `storage` interchanged.
StorageSwapped ==
    << <<"Storage", "memory">>, <<"Memory", "storage">>,
       <<"Calldata", "calldata">> >>

Storage ==
    << <<"Memory", "memory">>, <<"Storage", "storage">>,
       <<"Calldata", "calldata">> >>

Visibility ==
    << <<"External", "external">>, <<"Public", "public">>,
       <<"Internal", "internal">>, <<"Private", "private">> >>

Mutability ==
    << <<"Pure", "pure">>, <<"View", "view">>,
       <<"Constant", "constant">>, <<"Payable", "payable">> >>

KwTypes == {"Storage", "Visibility", "Mutability"}

KwEnum(ty) ==
    CASE ty = "Storage" -> Storage
      [] ty = "Visibility" -> Visibility
      [] ty = "Mutability" -> Mutability

\* Index of the first variant whose keyword is t, 0 if there is none.
RECURSIVE KwMatch(_, _, _)
KwMatch(E, t, i) ==
    IF i > Len(E) THEN 0
    ELSE IF E[i][2] = t THEN i
    ELSE KwMatch(E, t, i + 1)

\* Parse of a keyword enum: the lookahead peeks one token; the first keyword
\* that matches is consumed, and no match is an error that consumes nothing.
KwParse(ty, toks, org) ==
    LET i == IF toks # <<>> /\ ~toks[1].g
             THEN KwMatch(KwEnum(ty), toks[1].t, 1) ELSE 0
    IN  IF i > 0
        THEN [node |-> [ty |-> ty, variant |-> KwEnum(ty)[i][1],
                        span |-> TokSpan(org, 0)],
              pos |-> 1]
        ELSE [node |-> Err, pos |-> 0]

\* as_str(): the keyword of the active variant.
RECURSIVE KwStr(_, _, _)
KwStr(E, v, i) ==
    IF i > Len(E) THEN ""
    ELSE IF E[i][1] = v THEN E[i][2]
    ELSE KwStr(E, v, i + 1)

KwRender(n) == <<KwStr(KwEnum(n.ty), n.variant, 1)>>

\* Equality and hash of a keyword enum go by the discriminant.
KwEq(x, y) == x.variant = y.variant
KwHash(x) == <<x.variant>>

(***************************************************************************)
(* Punctuated<T, P> and parse_terminated                                   *)
(***************************************************************************)
\* A punctuated sequence: its values and the separators between and after
\* them; Len(puncts) is Len(vals) with a trailing separator, else one less.
Punctuated(vals, puncts) == [ok |-> TRUE, vals |-> vals, puncts |-> puncts]
PunctErr == [ok |-> FALSE, vals |-> <<>>, puncts |-> <<>>]

\* SolPath::parse: a path is one word here; a separator is no path.
SolPathParse(toks, i) == IF toks[i] = "," THEN 0 ELSE 1

\* TokenStream::parse takes every token that is left in the stream.
TokenStreamParse(toks, i) == Len(toks) - i + 1

\* Tokens the element parser consumes at i; 0 when it fails.
ElemLen(kind, toks, i) ==
    IF kind = "path" THEN SolPathParse(toks, i) ELSE TokenStreamParse(toks, i)

Elem(kind, toks, i, n, org) ==
    IF kind = "path"
    THEN [text |-> toks[i], span |-> InnerSpan(org, i)]
    ELSE SubSeq(toks, i, i + n - 1)

\* parse_terminated: until the stream is empty, parse a value, stop if the
\* stream is empty, else parse a separator.
RECURSIVE ParseTerminated(_, _, _, _, _)
ParseTerminated(kind, toks, i, org, acc) ==
    IF i > Len(toks) THEN acc
    ELSE LET n == ElemLen(kind, toks, i) IN
         IF n = 0 THEN PunctErr
         ELSE LET acc1 == [acc EXCEPT
                             !.vals = Append(@, Elem(kind, toks, i, n, org))]
                  j == i + n
              IN  IF j > Len(toks) THEN acc1
                  ELSE IF toks[j] = ","
                  THEN ParseTerminated(kind, toks, j + 1, org,
                         [acc1 EXCEPT !.puncts = Append(@, InnerSpan(org, j))])
                  ELSE PunctErr

(***************************************************************************)
(* SolPath                                                                 *)
(***************************************************************************)
SolPathEq(p, q) == p.text = q.text
SolPathHash(p) == p.text
SolPathSpan(p) == p.span
SolPathSetSpan(p, s) == [p EXCEPT !.span = s]
SolPathFmt(p) == <<p.text>>

\* Equality of two punctuated sequences of paths: the (value, separator)
\* pairs and the unpunctuated last value; separators always compare equal.
PunctuatedEq(p, q) ==
    /\ Len(p.vals) = Len(q.vals)
    /\ Len(p.puncts) = Len(q.puncts)
    /\ \A i \in 1..Len(p.vals) : SolPathEq(p.vals[i], q.vals[i])

(***************************************************************************)
(***************************************************************************)
(* Rendered text and the tokenizer                                         *)
(***************************************************************************)
\* The pieces of the items, with ", " written before every item but the first.
RECURSIVE FmtList(_, _)
FmtList(items, i) ==
    IF i > Len(items) THEN <<>>
    ELSE (IF i > 1 THEN <<", ">> ELSE <<>>) \o items[i]
         \o FmtList(items, i + 1)

\* Display of a TokenStream: its tokens, a space between two of them.
RECURSIVE TokenStreamFmt(_)
TokenStreamFmt(ts) ==
    IF ts = <<>> THEN <<>>
    ELSE IF Len(ts) = 1 THEN <<ts[1]>>
    ELSE <<ts[1], " ">> \o TokenStreamFmt(Tail(ts))

\* The tokenizer: white space separates tokens and is dropped, and the text
\* between "(" and the closing ")" becomes the interior of a group.
RECURSIVE LexInner(_)
LexInner(ps) ==
    IF ps = <<>> THEN <<>>
    ELSE IF Head(ps) = " " THEN LexInner(Tail(ps))
    ELSE IF Head(ps) = ", " THEN <<",">> \o LexInner(Tail(ps))
    ELSE <<Head(ps)>> \o LexInner(Tail(ps))

Lex(ps) ==
    IF Len(ps) >= 3 /\ ps[2] = "(" /\ ps[Len(ps)] = ")"
    THEN <<Tok(ps[1]), Grp(LexInner(SubSeq(ps, 3, Len(ps) - 1)))>>
    ELSE [i \in 1..Len(ps) |-> Tok(ps[i])]

(***************************************************************************)
(* Override                                                                *)
(***************************************************************************)
Override(override_token, paren_token, paths) ==
    [ty |-> "Override", override_token |-> override_token,
     paren_token |-> paren_token, paths |-> paths]

OverrideFmt(o) ==
    <<"override">> \o
    (IF o.paren_token # {}
     THEN <<"(">> \o FmtList([i \in 1..Len(o.paths.vals) |-> SolPathFmt(o.paths.vals[i])], 1) \o <<")">>
     ELSE <<>>)

OverrideParse(toks, org) ==
    IF toks = <<>> \/ toks[1].g \/ toks[1].t # "override"
    THEN [node |-> Err, pos |-> 0]
    ELSE IF Len(toks) >= 2 /\ toks[2].g
    THEN LET paths == ParseTerminated("path", toks[2].inner, 1, org,
                                      Punctuated(<<>>, <<>>))
         IN  IF paths.ok
             THEN [node |-> Override(TokSpan(org, 0), {TokSpan(org, 1)}, paths),
                   pos |-> 2]
             ELSE [node |-> Err, pos |-> 2]
    ELSE [node |-> Override(TokSpan(org, 0), {}, Punctuated(<<>>, <<>>)),
          pos |-> 1]

\* An equality that also compares the span of the keyword token.
OverrideEqSpans(x, y) ==
    /\ x.override_token = y.override_token
    /\ (x.paren_token = {}) = (y.paren_token = {})
    /\ PunctuatedEq(x.paths, y.paths)

\* Derived PartialEq: the keyword tokens and the parenthesis tokens always
\* compare equal, an Option by its presence, the paths as a Punctuated.
OverrideEq(x, y) ==
    /\ (x.paren_token = {}) = (y.paren_token = {})
    /\ PunctuatedEq(x.paths, y.paths)

\* Derived Hash: what the fields feed to the hasher.
OverrideHash(x) ==
    <<x.paren_token # {},
      [i \in 1..Len(x.paths.vals) |-> SolPathHash(x.paths.vals[i])],
      Len(x.paths.puncts)>>

\* A span() that falls back to the parenthesis span when the join fails.
OverrideSpanNoFallback(o) ==
    LET span == o.override_token
        joined == UNION {Join(span, p) : p \in o.paren_token}
    IN  IF joined # {} THEN CHOOSE s \in joined : TRUE
        ELSE IF o.paren_token # {} THEN CHOOSE p \in o.paren_token : TRUE
        ELSE span

OverrideSpan(o) ==
    LET span == o.override_token
        joined == UNION {Join(span, p) : p \in o.paren_token}
    IN  IF joined # {} THEN CHOOSE s \in joined : TRUE ELSE span

\* A set_span() that forgets the parenthesis marker.
OverrideSetSpanDropsParen(o, span) ==
    [o EXCEPT !.override_token = span, !.paren_token = {}]

OverrideSetSpan(o, span) ==
    [o EXCEPT !.override_token = span,
              !.paren_token = IF @ # {} THEN {span} ELSE {}]

(***************************************************************************)
(* Modifier                                                                *)
(***************************************************************************)
Modifier(name, paren_token, arguments) ==
    [ty |-> "Modifier", name |-> name, paren_token |-> paren_token,
     arguments |-> arguments]

ModifierFmt(m) ==
    SolPathFmt(m.name) \o
    (IF m.paren_token # {}
     THEN <<"(">> \o FmtList([i \in 1..Len(m.arguments.vals) |->
                                   TokenStreamFmt(m.arguments.vals[i])], 1) \o <<")">>
     ELSE <<>>)

\* A structural equality: name, parenthesis-presence and arguments.
ModifierEqStructural(x, y) ==
    /\ x.name.text = y.name.text
    /\ (x.paren_token = {}) = (y.paren_token = {})
    /\ x.arguments.vals = y.arguments.vals

ModifierEq(x, y) == SolPathEq(x.name, y.name)

ModifierHash(x) == <<SolPathHash(x.name)>>

ModifierParse(toks, org) ==
    IF toks = <<>> \/ toks[1].g \/ toks[1].t = ","
    THEN [node |-> Err, pos |-> 0]
    ELSE LET name == [text |-> toks[1].t, span |-> TokSpan(org, 0)] IN
         IF Len(toks) >= 2 /\ toks[2].g
         THEN LET arguments == ParseTerminated("stream", toks[2].inner, 1, org,
                                               Punctuated(<<>>, <<>>))
              IN  IF arguments.ok
                  THEN [node |-> Modifier(name, {TokSpan(org, 1)}, arguments),
                        pos |-> 2]
                  ELSE [node |-> Err, pos |-> 2]
         ELSE [node |-> Modifier(name, {}, Punctuated(<<>>, <<>>)), pos |-> 1]

ModifierSpan(m) ==
    LET span == SolPathSpan(m.name)
        joined == UNION {Join(span, p) : p \in m.paren_token}
    IN  IF joined # {} THEN CHOOSE s \in joined : TRUE ELSE span

\* A set_span() that relocates the name and leaves the parentheses in place.
ModifierSetSpanNameOnly(m, span) ==
    [m EXCEPT !.name = [@ EXCEPT !.span = span]]

\* A set_span() that gives every node a parenthesis marker.
ModifierSetSpanAddsParen(m, span) ==
    [m EXCEPT !.name = [@ EXCEPT !.span = span], !.paren_token = {span}]

ModifierSetSpan(m, span) ==
    [m EXCEPT !.name = SolPathSetSpan(@, span),
              !.paren_token = IF @ # {} THEN {span} ELSE {}]

(***************************************************************************)
(* The nodes as a caller uses them                                         *)
(***************************************************************************)
NodeTypes == KwTypes \cup {"Override", "Modifier"}

ParseAs(ty, toks, org) ==
    CASE ty = "Override" -> OverrideParse(toks, org)
      [] ty = "Modifier" -> ModifierParse(toks, org)
      [] OTHER -> KwParse(ty, toks, org)

Fmt(n) ==
    CASE n.ty = "Override" -> OverrideFmt(n)
      [] n.ty = "Modifier" -> ModifierFmt(n)
      [] OTHER -> KwRender(n)

Eq(x, y) ==
    CASE x.ty = "Override" -> OverrideEq(x, y)
      [] x.ty = "Modifier" -> ModifierEq(x, y)
      [] OTHER -> KwEq(x, y)

Hash(x) ==
    CASE x.ty = "Override" -> OverrideHash(x)
      [] x.ty = "Modifier" -> ModifierHash(x)
      [] OTHER -> KwHash(x)

(***************************************************************************)
(* Inputs                                                                  *)
(***************************************************************************)
Interiors(alphabet) == UNION {[1..n -> alphabet] : n \in 0..MaxInner}

Words ==
    {"memory", "storage", "calldata", "external", "public", "internal",
     "private", "pure", "view", "constant", "payable", "override", "foo"}

KwInputs ==
    {<<>>, <<Grp(<<>>)>>} \cup {<<Tok(w)>> : w \in Words}
    \cup {<<Tok(w), Tok("foo")>> : w \in Words}

OverrideInputs ==
    {<<>>, <<Tok("foo")>>, <<Tok("override")>>, <<Tok("override"), Tok("foo")>>}
    \cup {<<Tok("override"), Grp(in)>> : in \in Interiors({"A", "B", ","})}

ModifierInputs ==
    {<<>>, <<Tok(",")>>, <<Grp(<<>>)>>}
    \cup {<<Tok(n)>> : n \in {"f", "g"}}
    \cup {<<Tok(n), Grp(in)>> :
            n \in {"f", "g"}, in \in Interiors({"x", ","})}

Inputs(ty) ==
    CASE ty = "Override" -> OverrideInputs
      [] ty = "Modifier" -> ModifierInputs
      [] OTHER -> KwInputs

(***************************************************************************)
(* State: the token stream last parsed and the cursor position after it,   *)
(* the node a it gave, the span a was last relocated to (if any), a second *)
(* node b of the same type and how it was made, and the result of the last *)
(* operation.                                                              *)
(***************************************************************************)
VARIABLES input, pos, a, aset, b, bfrom, res

vars == <<input, pos, a, aset, b, bfrom, res>>

NoRes == [op |-> "none"]

Init ==
    /\ input = <<>>
    /\ pos = 0
    /\ a = None
    /\ aset = {}
    /\ b = None
    /\ bfrom = "none"
    /\ res = NoRes

\* A parse fills the empty slot a.
ParseInto(ty, toks, org) ==
    LET r == ParseAs(ty, toks, org) IN
    /\ a = None
    /\ input' = toks
    /\ pos' = r.pos
    /\ a' = r.node
    /\ aset' = {}
    /\ b' = None
    /\ bfrom' = "none"
    /\ res' = [op |-> "parse", ty |-> ty]

ParseKw ==
    \E ty \in KwTypes, toks \in KwInputs, c \in Ctxs :
        ParseInto(ty, toks, Org(0, c, c))

ParseOverride ==
    \E toks \in OverrideInputs, kctx \in Ctxs, gctx \in Ctxs :
        ParseInto("Override", toks, Org(0, kctx, gctx))

ParseModifier ==
    \E toks \in ModifierInputs, kctx \in Ctxs, gctx \in Ctxs :
        ParseInto("Modifier", toks, Org(0, kctx, gctx))

SetSpan ==
    \E s \in SpanArgs :
        /\ a.ty \in {"Override", "Modifier"}
        /\ a' = IF a.ty = "Override" THEN OverrideSetSpan(a, s)
                ELSE ModifierSetSpan(a, s)
        /\ aset' = {s}
        /\ res' = [op |-> "set_span", v |-> s]
        /\ UNCHANGED <<input, pos, b, bfrom>>

GetSpan ==
    /\ a.ty \in {"Override", "Modifier"}
    /\ res' = [op |-> "span",
               v |-> IF a.ty = "Override" THEN OverrideSpan(a)
                     ELSE ModifierSpan(a)]
    /\ UNCHANGED <<input, pos, a, aset, b, bfrom>>

Render ==
    /\ a.ty \in NodeTypes
    /\ res' = [op |-> "render", v |-> Fmt(a)]
    /\ UNCHANGED <<input, pos, a, aset, b, bfrom>>

\* A second node of a's type, from any input, somewhere else in the source.
ParseOther ==
    \E toks \in Inputs(a.ty), off \in 1..NumOffsets :
        /\ a.ty \in NodeTypes
        /\ b = None
        /\ b' = ParseAs(a.ty, toks, Org(off, "file", "file")).node
        /\ bfrom' = "parse"
        /\ res' = NoRes
        /\ UNCHANGED <<input, pos, a, aset>>

\* The text a was parsed from, parsed again somewhere else in the source.
Reparse ==
    \E off \in 1..NumOffsets :
        /\ a.ty \in NodeTypes
        /\ b = None
        /\ b' = ParseAs(a.ty, input, Org(off, "file", "file")).node
        /\ bfrom' = "reparse"
        /\ res' = NoRes
        /\ UNCHANGED <<input, pos, a, aset>>

\* The rendering of a, tokenized and parsed.
RoundTrip ==
    \E off \in 1..NumOffsets :
        /\ a.ty \in NodeTypes
        /\ b = None
        /\ b' = ParseAs(a.ty, Lex(Fmt(a)), Org(off, "file", "file")).node
        /\ bfrom' = "roundtrip"
        /\ res' = NoRes
        /\ UNCHANGED <<input, pos, a, aset>>

Compare ==
    /\ a.ty \in NodeTypes
    /\ b.ty = a.ty
    /\ res' = [op |-> "eq", v |-> Eq(a, b), ha |-> Hash(a), hb |-> Hash(b)]
    /\ UNCHANGED <<input, pos, a, aset, b, bfrom>>

\* The nodes go out of scope.
Drop ==
    /\ a # None
    /\ input' = <<>>
    /\ pos' = 0
    /\ a' = None
    /\ aset' = {}
    /\ b' = None
    /\ bfrom' = "none"
    /\ res' = NoRes

Next ==
    \/ ParseKw
    \/ ParseOverride
    \/ ParseModifier
    \/ SetSpan
    \/ GetSpan
    \/ Render
    \/ ParseOther
    \/ Reparse
    \/ RoundTrip
    \/ Compare
    \/ Drop

Spec == Init /\ [][Next]_vars

(***************************************************************************)
(* Properties                                                              *)
(***************************************************************************)
IsParenthesized == Len(input) = 2 /\ input[2].g

\* The interior of a group split at its commas.
RECURSIVE SplitAtCommas(_, _)
SplitAtCommas(toks, cur) ==
    IF toks = <<>> THEN <<cur>>
    ELSE IF Head(toks) = "," THEN <<cur>> \o SplitAtCommas(Tail(toks), <<>>)
    ELSE SplitAtCommas(Tail(toks), Append(cur, Head(toks)))

\* C1: Modifier::parse of name(a1, ..., an), n >= 1, gives exactly n
\* arguments, the i-th being ai, and render() gives name(a1, ..., an) with
\* ", " between the arguments.
C1_ModifierSplitsAtCommas ==
    (a.ty = "Modifier" /\ IsParenthesized) =>
        LET args == SplitAtCommas(input[2].inner, <<>>) IN
        (\A i \in 1..Len(args) : args[i] # <<>>) =>
            /\ Len(a.arguments.vals) = Len(args)
            /\ \A i \in 1..Len(args) : a.arguments.vals[i] = args[i]
            /\ res.op = "render" =>
                 res.v = <<a.name.text, "(">>
                         \o FmtList([i \in 1..Len(args) |->
                                       TokenStreamFmt(args[i])], 1)
                         \o <<")">>

\* C2: the rendering of a parsed Override parses again, to a node equal to
\* the parsed one.
C2_OverrideRoundTrip ==
    (a.ty = "Override" /\ bfrom = "roundtrip") =>
        /\ b.ty = "Override"
        /\ res.op = "eq" => res.v

SamePaths(x, y) ==
    /\ Len(x.paths.vals) = Len(y.paths.vals)
    /\ \A i \in 1..Len(x.paths.vals) :
          x.paths.vals[i].text = y.paths.vals[i].text

\* C3: two Override values are equal exactly when both have or both lack the
\* parenthesis marker and their path sequences are element-wise equal.
C3_OverrideEqIsStructural ==
    (a.ty = "Override" /\ b.ty = "Override" /\ res.op = "eq") =>
        (res.v <=> /\ (a.paren_token = {}) = (b.paren_token = {})
                   /\ SamePaths(a, b))

\* C4: two Modifier values are equal exactly when their names are equal,
\* whatever their parentheses and arguments, and equal values hash equal.
C4_ModifierEqByName ==
    (a.ty = "Modifier" /\ b.ty = "Modifier" /\ res.op = "eq") =>
        /\ res.v <=> (a.name.text = b.name.text)
        /\ res.v => res.ha = res.hb

C4_Witness ==
    /\ a.ty = "Modifier" /\ b.ty = "Modifier" /\ res.op = "eq"
    /\ res.v
    /\ a.paren_token # {} /\ b.paren_token = {}
    /\ a.arguments.vals # b.arguments.vals

\* C5: a node and the node parsed from the same text at another source
\* offset are equal and hash equal; two keyword nodes are equal exactly when
\* their variants are the same.
C5_PositionIndependent ==
    /\ (bfrom = "reparse" /\ b.ty = a.ty /\ res.op = "eq") =>
          (res.v /\ res.ha = res.hb)
    /\ (a.ty \in KwTypes /\ b.ty = a.ty /\ res.op = "eq") =>
          (res.v <=> a.variant = b.variant)

C5_Witness ==
    /\ a.ty = "Override" /\ bfrom = "reparse" /\ b.ty = "Override"
    /\ res.op = "eq"
    /\ Len(a.paths.vals) = 2
    /\ a.override_token # b.override_token
    /\ a.paren_token # b.paren_token

\* C6: span() after set_span(s) is s, for Override and Modifier, bare or
\* parenthesized.
C6_SpanCollapse ==
    (a.ty \in {"Override", "Modifier"} /\ aset # {} /\ res.op = "span") =>
        res.v \in aset

C6_Witness ==
    /\ a.ty = "Modifier" /\ a.paren_token # {}
    /\ aset = {Span("file", 8, 9)}
    /\ res.op = "span"
    /\ IsParenthesized

KwOf ==
    [Storage |-> {"memory", "storage", "calldata"},
     Visibility |-> {"external", "public", "internal", "private"},
     Mutability |-> {"pure", "view", "constant", "payable"}]

VariantOf ==
    [memory |-> "Memory", storage |-> "Storage", calldata |-> "Calldata",
     external |-> "External", public |-> "Public", internal |-> "Internal",
     private |-> "Private", pure |-> "Pure", view |-> "View",
     constant |-> "Constant", payable |-> "Payable"]

\* C7: a keyword enum's parse consumes exactly one token and gives the
\* keyword's variant when the next token is a keyword of the enum; otherwise
\* it is an error and the cursor has not moved.
C7_KwParse ==
    (res.op = "parse" /\ res.ty \in KwTypes) =>
        IF input # <<>> /\ ~input[1].g /\ input[1].t \in KwOf[res.ty]
        THEN /\ pos = 1
             /\ a.ty = res.ty
             /\ a.variant = VariantOf[input[1].t]
        ELSE /\ pos = 0
             /\ a = Err

C7_Witness ==
    /\ res.op = "parse" /\ res.ty = "Storage"
    /\ Len(input) = 2 /\ input[1].t = "storage"
    /\ pos = 1 /\ a.ty = "Storage" /\ a.variant = "Storage"

C7_WitnessError ==
    /\ res.op = "parse" /\ res.ty = "Visibility"
    /\ input # <<>> /\ input[1].t = "memory"
    /\ pos = 0 /\ a = Err

ParenInvariant(n) ==
    /\ (n.ty = "Override" /\ n.paren_token = {}) => n.paths.vals = <<>>
    /\ (n.ty = "Modifier" /\ n.paren_token = {}) => n.arguments.vals = <<>>

\* C8: every parsed Override or Modifier, also after set_span calls, has an
\* empty path or argument sequence when it has no parenthesis marker.
C8_ParenInvariant == ParenInvariant(a) /\ ParenInvariant(b)

C8_Witness ==
    /\ a.ty = "Modifier" /\ aset # {}
    /\ a.paren_token = {} /\ a.arguments.vals = <<>>
    /\ b.ty = "Modifier" /\ b.paren_token # {} /\ b.arguments.vals # <<>>

\* C9: span() is the join of the keyword or name span with the parenthesis
\* span when the marker is present and the join is defined, and the keyword
\* or name span alone otherwise.
C9_SpanJoinFallback ==
    (a.ty \in {"Override", "Modifier"} /\ res.op = "span") =>
        LET first == IF a.ty = "Override" THEN a.override_token
                     ELSE a.name.span
        IN  IF a.paren_token # {}
               /\ \E p \in a.paren_token : Join(first, p) # {}
            THEN \E p \in a.paren_token : res.v \in Join(first, p)
            ELSE res.v = first

C9_Witness ==
    /\ a.ty = "Override" /\ res.op = "span"
    /\ a.paren_token # {}
    /\ \A p \in a.paren_token : Join(a.override_token, p) = {}
    /\ res.v = a.override_token

C9_WitnessJoined ==
    /\ a.ty = "Modifier" /\ res.op = "span"
    /\ \E p \in a.paren_token : res.v \in Join(a.name.span, p)
    /\ res.v # a.name.span

\* C10: set_span changes spans only: the parenthesis marker stays present or
\* absent, the name, paths and arguments stay as they are, and so do the
\* rendering, the hash and the equality to another node.
C10_SetSpanFrame ==
    [][res'.op = "set_span" =>
         /\ a'.ty = a.ty
         /\ (a'.paren_token = {}) = (a.paren_token = {})
         /\ a.ty = "Override" => a'.paths = a.paths
         /\ a.ty = "Modifier" => /\ a'.arguments = a.arguments
                                 /\ a'.name.text = a.name.text
         /\ Fmt(a') = Fmt(a)
         /\ Hash(a') = Hash(a)
         /\ b.ty = a.ty => (Eq(a', b) <=> Eq(a, b))]_vars

C10_Witness ==
    /\ a.ty = "Modifier" /\ a.paren_token = {}
    /\ res.op = "set_span"
    /\ b.ty = "Modifier"

====
